---- MODULE Spec2Model ----
(***************************************************************************)
(* Model of rtfm_v5/monotonic_stm32l0: a 32 bit monotonic clock made of    *)
(* two linked 16 bit timers (TIM2 = low half, TIM3 = high half), the      *)
(* Instant / Duration arithmetic on its readings, and the start-up of the *)
(* RTIC application in main.rs that uses it.                               *)
(*                                                                         *)
(* Width scaling: a hardware counter register holds CntMod values          *)
(* (2^16 in the device) and an Instant / Duration holds U32Mod = CntMod^2   *)
(* values (2^32 in the device).  All arithmetic is done modulo these, so   *)
(* every overflow and wrap of the device happens in the model.             *)
(***************************************************************************)
EXTENDS Integers, Sequences, FiniteSets, TLC

\* Number of values of one 16 bit counter register (stands for 2^16).
CntMod == 2

\* Number of low-counter overflows the hardware performs in one behaviour.
MaxOverflows == 1

\* Number of interrupt-context calls of now() in one behaviour.
MaxIsr == 1

\* Number of runs of task foo in one behaviour.
MaxRuns == 8

\* The period of task foo in ticks (main.rs, line 52).
Period == 6301

\* Number of values of a u32 (stands for 2^32): two counter registers.
U32Mod == CntMod * CntMod

U32 == 0 .. (U32Mod - 1)

\* Execution contexts that call now(): task foo and an interrupt handler.
Ctx == {"task", "isr"}

VARIABLES
    cnt_msb,      \* TIM3.CNT, the high counter
    cnt_lsb,      \* TIM2.CNT, the low counter
    cen_msb,      \* TIM3.CR1.CEN
    cen_lsb,      \* TIM2.CR1.CEN
    main,         \* position of init() in main.rs
    handedOff,    \* the LinkedTimerPair was moved into initialize() and dropped
    fooSpawned,   \* init spawned task foo
    resetPc,      \* 0: reset() not called, 1..6: next register write, 7: returned
    resetCalls,   \* number of calls of reset()
    pc,           \* per context: position inside Instant::now()
    msb,          \* per context: local msb       (line 97)
    lsb,          \* per context: local lsb       (line 98)
    msb_again,    \* per context: local msb_again (lines 99, 107)
    result,       \* per context: the Instant returned by the last call
    ovfLeft,      \* low-counter overflows still to come
    isrLeft,      \* interrupt-context calls still to come
    \* history variables, written but never read by the program
    heldAtLsb,    \* per context: the value the pair held when lsb was read
    highAdv,      \* per context: high-counter advances during the call
    retried,      \* per context: the call repeated a pass of its loop
    floor,        \* per context: greatest Instant returned before the call started
    maxRet,       \* greatest Instant returned since reset() and the last wrap to 0
    justReset,    \* reset() returned and no tick happened since
    writes,       \* register writes done by reset(), in order
    \* Instant / Duration arithmetic
    lhs, rhs,     \* operands (raw tick counts)
    op,           \* the operation applied, "none" before
    out,          \* its outcome
    overflowChecks, \* the build traps integer overflow (debug) or not (release)
    \* task foo and its deadlines
    scheduled,    \* cx.scheduled: the deadline of the next run of foo
    fooNow,       \* the local now of the last run of foo (line 49)
    fooFailed,    \* foo panicked while it computed its next deadline
    first,        \* history: the deadline of the first run
    runs          \* history: number of runs of foo so far

hwvars == <<cnt_msb, cnt_lsb, cen_msb, cen_lsb>>
appvars == <<main, handedOff, fooSpawned, resetPc, resetCalls>>
nowvars == <<pc, msb, lsb, msb_again, result>>
budgetvars == <<ovfLeft, isrLeft>>
histvars == <<heldAtLsb, highAdv, retried, floor, maxRet, justReset, writes>>
foovars == <<scheduled, fooNow, fooFailed, first, runs>>
arvars == <<lhs, rhs, op, out, overflowChecks, foovars>>
vars == <<hwvars, appvars, nowvars, budgetvars, histvars, arvars>>

Max(a, b) == IF a >= b THEN a ELSE b

----------------------------------------------------------------------------
(* Hardware: the linked timer pair *)

\* The 32 bit value of the pair: high half and low half.
Composite(m, l) == m * CntMod + l

\* The value the two counters hold together right now.
CurrentValue == Composite(cnt_msb, cnt_lsb)

\* The low counter overflows on this tick.
LowOverflows == cnt_lsb = CntMod - 1

\* The overflow of the low counter clocks the high counter, if that counts.
HighAdvances == LowOverflows /\ cen_msb

\* The 32 bit value wraps to 0 on this tick.
Wraps == HighAdvances /\ cnt_msb = CntMod - 1

\* Context c is inside a call of now().
InCall(c) == pc[c] \in {"L97", "L98", "L99", "L107"}

\* One tick of the timer clock: the low counter counts, and its overflow
\* clocks the high counter.
TickHw ==
    /\ cen_lsb
    /\ cnt_lsb' = (cnt_lsb + 1) % CntMod
    /\ cnt_msb' = IF HighAdvances THEN (cnt_msb + 1) % CntMod ELSE cnt_msb
    /\ highAdv' = [c \in Ctx |->
                     IF HighAdvances /\ InCall(c) /\ highAdv[c] < CntMod
                     THEN highAdv[c] + 1 ELSE highAdv[c]]
    /\ floor' = IF Wraps THEN [c \in Ctx |-> 0] ELSE floor
    /\ maxRet' = IF Wraps THEN 0 ELSE maxRet
    /\ justReset' = FALSE
    /\ UNCHANGED <<cen_msb, cen_lsb, appvars, nowvars, isrLeft, heldAtLsb, retried, writes, arvars>>

Tick == TickHw /\ UNCHANGED ovfLeft

\* Normal operation: only finitely many overflows of the low counter fall
\* into the calls of now() under way.
TickNormal ==
    /\ LowOverflows => ovfLeft > 0
    /\ TickHw
    /\ ovfLeft' = IF LowOverflows THEN ovfLeft - 1 ELSE ovfLeft

----------------------------------------------------------------------------
(* main.rs: init *)

\* Nothing of init or reset() runs while a call of now() made from the same
\* (interrupts disabled) start-up context is in progress.
StartupIdle == \A c \in Ctx : pc[c] = "idle"

\* LinkedTimerPair::tim2_tim3: the HAL links the two timers and starts them.
SetupTimer ==
    /\ main = "L33"
    /\ StartupIdle
    /\ main' = "L37"
    /\ cen_msb' = TRUE
    /\ cen_lsb' = TRUE
    /\ UNCHANGED <<cnt_msb, cnt_lsb, handedOff, fooSpawned, resetPc, resetCalls,
                   nowvars, budgetvars, histvars, arvars>>

\* LinkedTim2Tim3::initialize: the pair is consumed; no register is touched.
Initialize ==
    /\ main = "L37"
    /\ StartupIdle
    /\ main' = "L42"
    /\ handedOff' = TRUE
    /\ UNCHANGED <<hwvars, fooSpawned, resetPc, resetCalls,
                   nowvars, budgetvars, histvars, arvars>>

\* cx.spawn.foo()
SpawnFoo ==
    /\ main = "L42"
    /\ StartupIdle
    /\ main' = "returned"
    /\ fooSpawned' = TRUE
    /\ UNCHANGED <<hwvars, handedOff, resetPc, resetCalls,
                   nowvars, budgetvars, histvars, arvars>>

----------------------------------------------------------------------------
(* LinkedTim2Tim3::reset *)

\* reset() that clears the counters before it has stopped them.
ResetProgramClearFirst ==
    << [reg |-> "msb_cnt", val |-> 0],
       [reg |-> "msb_cnt", val |-> 0],
       [reg |-> "msb_cen", val |-> 0],
       [reg |-> "lsb_cen", val |-> 0],
       [reg |-> "msb_cen", val |-> 1],
       [reg |-> "lsb_cen", val |-> 1] >>

\* The register writes of reset(), in program order (lines 69 to 76).
\* cen values: 0 clears the enable bit, 1 sets it; cnt.reset() writes 0.
ResetProgram ==
    << [reg |-> "msb_cen", val |-> 0],
       [reg |-> "lsb_cen", val |-> 0],
       [reg |-> "msb_cnt", val |-> 0],
       [reg |-> "msb_cnt", val |-> 0],
       [reg |-> "msb_cen", val |-> 1],
       [reg |-> "lsb_cen", val |-> 1] >>

ResetReturned == resetPc = Len(ResetProgram) + 1

\* The runtime calls reset() once init has returned, and only once.
RuntimeCallsReset == main = "returned" /\ resetPc = 0

ResetCall ==
    /\ RuntimeCallsReset
    /\ StartupIdle
    /\ resetPc' = 1
    /\ resetCalls' = resetCalls + 1
    /\ UNCHANGED <<hwvars, main, handedOff, fooSpawned,
                   nowvars, budgetvars, histvars, arvars>>

\* One register write of reset().
ResetStep ==
    /\ resetPc \in 1 .. Len(ResetProgram)
    /\ LET w == ResetProgram[resetPc] IN
         /\ cen_msb' = IF w.reg = "msb_cen" THEN w.val = 1 ELSE cen_msb
         /\ cen_lsb' = IF w.reg = "lsb_cen" THEN w.val = 1 ELSE cen_lsb
         /\ cnt_msb' = IF w.reg = "msb_cnt" THEN w.val ELSE cnt_msb
         /\ cnt_lsb' = IF w.reg = "lsb_cnt" THEN w.val ELSE cnt_lsb
         /\ writes' = Append(writes, [reg |-> w.reg, val |-> w.val,
                                      cen_msb |-> cen_msb, cen_lsb |-> cen_lsb])
    /\ resetPc' = resetPc + 1
    /\ justReset' = (resetPc = Len(ResetProgram))
    /\ maxRet' = 0
    /\ UNCHANGED <<main, handedOff, fooSpawned, resetCalls,
                   nowvars, budgetvars, heldAtLsb, highAdv, retried, floor, arvars>>

----------------------------------------------------------------------------
(* Instant::now *)

\* now() without the check of line 108.
MsbNotChecked(m, again) == TRUE

\* now() with the check of line 108 inverted.
MsbChanged(m, again) == m # again

\* Line 108: the high counter read last equals the one read first.
MsbUnchanged(m, again) == m = again

\* The two halves combined the wrong way round.
NowValueSwapped(m, l) == Composite(l, m)

\* Line 110: (msb << 16) | lsb.
NowValue(m, l) == Composite(m, l)

\* A runtime that dispatches a task as soon as it is spawned.
TasksStartAtOnce == TRUE

\* Tasks are dispatched only after reset() has returned.
TasksMayStart == ResetReturned

\* Single core: the task context runs only while no interrupt handler does.
CanRun(c) == c = "isr" \/ pc["isr"] = "idle"

\* Entry into now(): the history of the call starts here.
NowEnter(c) ==
    /\ pc[c] = "idle"
    /\ pc' = [pc EXCEPT ![c] = "L97"]
    /\ floor' = [floor EXCEPT ![c] = maxRet]
    /\ UNCHANGED <<hwvars, appvars, msb, lsb, msb_again, result, ovfLeft,
                   heldAtLsb, highAdv, retried, maxRet, justReset, writes, arvars>>

\* Task foo runs (main.rs line 49).
FooCallsNow ==
    /\ fooSpawned
    /\ TasksMayStart
    /\ CanRun("task")
    /\ NowEnter("task")
    /\ UNCHANGED isrLeft

\* Code of the start-up phase calls now(): allowed at any time before the
\* runtime calls reset(), the value being of no use (lines 46 to 50).
EarlyCallsNow ==
    /\ resetPc = 0
    /\ NowEnter("task")
    /\ UNCHANGED isrLeft

\* An interrupt handler preempts whatever runs and calls now().
IsrCallsNow ==
    /\ ResetReturned
    /\ NowEnter("isr")
    /\ UNCHANGED isrLeft

\* Normal operation: only finitely many interrupts preempt the task.
IsrCallsNowNormal ==
    /\ ResetReturned
    /\ isrLeft > 0
    /\ isrLeft' = isrLeft - 1
    /\ NowEnter("isr")

\* Line 97: let msb = TIM3.CNT
NowReadMsb(c) ==
    /\ pc[c] = "L97"
    /\ CanRun(c)
    /\ msb' = [msb EXCEPT ![c] = cnt_msb]
    /\ pc' = [pc EXCEPT ![c] = "L98"]
    /\ UNCHANGED <<hwvars, appvars, lsb, msb_again, result, budgetvars, histvars, arvars>>

\* A read of TIM2.CNT that clears the register.
NowReadLsbClearing(c) ==
    /\ pc[c] = "L98"
    /\ CanRun(c)
    /\ lsb' = [lsb EXCEPT ![c] = cnt_lsb]
    /\ cnt_lsb' = 0
    /\ heldAtLsb' = [heldAtLsb EXCEPT ![c] = CurrentValue]
    /\ pc' = [pc EXCEPT ![c] = "L99"]
    /\ UNCHANGED <<cnt_msb, cen_msb, cen_lsb, appvars, msb, msb_again, result,
                   budgetvars, highAdv, retried, floor, maxRet, justReset, writes,
                   arvars>>

\* Line 98: let lsb = TIM2.CNT
NowReadLsb(c) ==
    /\ pc[c] = "L98"
    /\ CanRun(c)
    /\ lsb' = [lsb EXCEPT ![c] = cnt_lsb]
    /\ heldAtLsb' = [heldAtLsb EXCEPT ![c] = CurrentValue]
    /\ pc' = [pc EXCEPT ![c] = "L99"]
    /\ UNCHANGED <<hwvars, appvars, msb, msb_again, result, budgetvars,
                   highAdv, retried, floor, maxRet, justReset, writes, arvars>>

\* Line 99: let msb_again = TIM3.CNT (shadowed by line 107 before any use)
NowReadMsbAgain(c) ==
    /\ pc[c] = "L99"
    /\ CanRun(c)
    /\ msb_again' = [msb_again EXCEPT ![c] = cnt_msb]
    /\ pc' = [pc EXCEPT ![c] = "L107"]
    /\ UNCHANGED <<hwvars, appvars, msb, lsb, result, budgetvars, histvars, arvars>>

\* The check of the loop made on the high counter as line 99 read it, with
\* no further read.
NowCheckStale(c) ==
    /\ pc[c] = "L107"
    /\ CanRun(c)
    /\ IF MsbUnchanged(msb[c], msb_again[c])
       THEN /\ result' = [result EXCEPT ![c] = NowValue(msb[c], lsb[c])]
            /\ pc' = [pc EXCEPT ![c] = "done"]
            /\ maxRet' = IF ResetReturned /\ highAdv[c] < CntMod
                         THEN Max(maxRet, NowValue(msb[c], lsb[c]))
                         ELSE maxRet
            /\ UNCHANGED retried
       ELSE /\ pc' = [pc EXCEPT ![c] = "L97"]
            /\ retried' = [retried EXCEPT ![c] = TRUE]
            /\ UNCHANGED <<result, maxRet>>
    /\ msb' = [msb EXCEPT ![c] = 0]
    /\ lsb' = [lsb EXCEPT ![c] = 0]
    /\ msb_again' = [msb_again EXCEPT ![c] = 0]
    /\ UNCHANGED <<hwvars, appvars, budgetvars,
                   heldAtLsb, highAdv, floor, justReset, writes, arvars>>

\* Lines 107 to 112: read TIM3.CNT once more, return if it equals msb,
\* otherwise go round the loop.  Either way the locals of the loop body go
\* out of scope.
NowCheck(c) ==
    /\ pc[c] = "L107"
    /\ CanRun(c)
    /\ IF MsbUnchanged(msb[c], cnt_msb)
       THEN /\ result' = [result EXCEPT ![c] = NowValue(msb[c], lsb[c])]
            /\ pc' = [pc EXCEPT ![c] = "done"]
            /\ maxRet' = IF ResetReturned /\ highAdv[c] < CntMod
                         THEN Max(maxRet, NowValue(msb[c], lsb[c]))
                         ELSE maxRet
            /\ UNCHANGED retried
       ELSE /\ pc' = [pc EXCEPT ![c] = "L97"]
            /\ retried' = [retried EXCEPT ![c] = TRUE]
            /\ UNCHANGED <<result, maxRet>>
    /\ msb' = [msb EXCEPT ![c] = 0]
    /\ lsb' = [lsb EXCEPT ![c] = 0]
    /\ msb_again' = [msb_again EXCEPT ![c] = 0]
    /\ UNCHANGED <<hwvars, appvars, budgetvars,
                   heldAtLsb, highAdv, floor, justReset, writes, arvars>>

\* The caller takes the Instant.
NowReturn(c) ==
    /\ pc[c] = "done"
    /\ CanRun(c)
    /\ pc' = [pc EXCEPT ![c] = "idle"]
    /\ UNCHANGED <<msb, lsb, msb_again>>
    /\ result' = [result EXCEPT ![c] = 0]
    /\ heldAtLsb' = [heldAtLsb EXCEPT ![c] = 0]
    /\ highAdv' = [highAdv EXCEPT ![c] = 0]
    /\ retried' = [retried EXCEPT ![c] = FALSE]
    /\ floor' = [floor EXCEPT ![c] = 0]
    /\ UNCHANGED <<hwvars, appvars, budgetvars, maxRet, justReset, writes, arvars>>

----------------------------------------------------------------------------
(* Instant and Duration arithmetic.  An outcome is a value or the panic of a
   failed assertion, which produces no value. *)

Ok(v) == [ok |-> TRUE, inner |-> v]
Panic == [ok |-> FALSE, inner |-> 0]

\* u32::wrapping_add: the sum with the carry out of the top bit dropped.
wrapping_add(x, y) == IF x + y >= U32Mod THEN x + y - U32Mod ELSE x + y

\* Subtraction that stops at 0 instead of wrapping.
saturating_sub(x, y) == IF x >= y THEN x - y ELSE 0

\* u32::wrapping_sub: the difference with the borrow dropped.
wrapping_sub(x, y) == IF x >= y THEN x - y ELSE U32Mod - (y - x)

\* duration_since that accepts equal instants.
duration_since_or_equal(self, earlier) ==
    IF self >= earlier THEN Ok(self - earlier) ELSE Panic

\* Instant::duration_since (lines 127 to 135)
duration_since(self, earlier) ==
    IF self > earlier THEN Ok(self - earlier) ELSE Panic

\* += with the checked addition of a debug build instead of wrapping_add.
InstantAddAssignChecked(self, dur) ==
    IF self + dur >= U32Mod THEN Panic ELSE Ok(self + dur)

\* impl AddAssign<Duration> for Instant
InstantAddAssign(self, dur) == Ok(wrapping_add(self, dur))

\* impl Add<Duration> for Instant: self += dur; self
InstantAdd(self, dur) == InstantAddAssign(self, dur)

\* impl SubAssign<Duration> for Instant
InstantSubAssign(self, dur) == Ok(wrapping_sub(self, dur))

\* impl Sub<Duration> for Instant: self -= dur; self
InstantSubDuration(self, dur) == InstantSubAssign(self, dur)

\* impl Sub for Instant
InstantSub(self, other) == duration_since(self, other)

\* The operators +, - and * on u32: a result out of range panics in a build
\* with overflow checks and is reduced modulo U32Mod in a build without.
u32_add(x, y) ==
    IF x + y < U32Mod THEN Ok(x + y)
    ELSE IF overflowChecks THEN Panic ELSE Ok((x + y) % U32Mod)

u32_sub(x, y) ==
    IF x >= y THEN Ok(x - y)
    ELSE IF overflowChecks THEN Panic ELSE Ok((x - y) % U32Mod)

u32_mul(x, y) ==
    IF x * y < U32Mod THEN Ok(x * y)
    ELSE IF overflowChecks THEN Panic ELSE Ok((x * y) % U32Mod)

\* impl AddAssign for Duration: self.inner += dur.inner
DurationAddAssign(self, dur) == u32_add(self, dur)

\* impl Add for Duration: Duration { inner: self.inner + other.inner }
DurationAdd(self, other) == u32_add(self, other)

\* impl Mul<u32> for Duration: Duration { inner: self.inner * other }
DurationMul(self, other) == u32_mul(self, other)

\* impl MulAssign<u32> for Duration: *self = *self * other
DurationMulAssign(self, other) == DurationMul(self, other)

\* impl SubAssign for Duration: self.inner -= rhs.inner
DurationSubAssign(self, dur) == u32_sub(self, dur)

\* impl Sub for Duration: Duration { inner: self.inner - rhs.inner }
DurationSub(self, other) == u32_sub(self, other)

\* Instant::elapsed with the operands of the subtraction exchanged.
InstantElapsedSwapped(nowval, self) == InstantSub(self, nowval)

\* Instant::elapsed (lines 116 to 119): Instant::now() - *self, where nowval
\* is the value the call of now() returned.
InstantElapsed(nowval, self) == InstantSub(nowval, self)

\* An Option that holds a value.
Some(v) == [some |-> TRUE, value |-> v]

\* A comparison that takes the shorter way round the 32 bit circle.
InstantCmpWrapAware(self, other) ==
    IF self = other THEN "Equal"
    ELSE IF 2 * wrapping_sub(self, other) < U32Mod THEN "Greater" ELSE "Less"

\* impl Ord for Instant: self.inner.cmp(&rhs.inner), the order of u32.
InstantCmp(self, other) ==
    IF self < other THEN "Less"
    ELSE IF self = other THEN "Equal" ELSE "Greater"

\* impl PartialOrd for Instant: Some(self.cmp(rhs))
InstantPartialCmp(self, other) == Some(InstantCmp(self, other))

\* The operator < of PartialOrd: partial_cmp yields Some(Less).
InstantLt(self, other) == InstantPartialCmp(self, other) = Some("Less")

\* derive(PartialEq) for Instant: the inner fields are equal.
InstantEq(self, other) == self = other

\* ratio() with a numerator that is not 1.
ratio_doubled == [numerator |-> 2, denominator |-> 1]

\* LinkedTim2Tim3::ratio (lines 35 to 42)
ratio == [numerator |-> 1, denominator |-> 1]

\* A tick count converted by a fraction, as a consumer of ratio() does.
Convert(ticks, fraction) ==
    IF fraction.denominator = 0 THEN Panic
    ELSE Ok((ticks * fraction.numerator) \div fraction.denominator)

\* (i + d).cmp(&i): the sum compared with the Instant it was derived from.
AddThenCmp(i, d) ==
    LET sum == InstantAdd(i, d) IN
      IF sum.ok THEN Ok(InstantCmp(sum.inner, i)) ELSE Panic

\* (i + d) - d
AddThenSub(i, d) ==
    LET sum == InstantAdd(i, d) IN
      IF sum.ok THEN InstantSubDuration(sum.inner, d) ELSE Panic

\* (i - d) + d
SubThenAdd(i, d) ==
    LET diff == InstantSubDuration(i, d) IN
      IF diff.ok THEN InstantAdd(diff.inner, d) ELSE Panic

\* from_cycles that keeps only the low 16 bits of the count.
from_cycles_truncating(cycles) == [inner |-> cycles % CntMod]

\* Duration::from_cycles (lines 201 to 203)
from_cycles(cycles) == [inner |-> cycles]

\* Duration::as_cycles (lines 206 to 208)
as_cycles(self) == self.inner

\* impl TryInto<u32> for Duration: Ok(self.as_cycles())
try_into(self) == Ok(as_cycles(self))

\* foo that derives its next deadline from the time it read, not from its
\* own deadline.
FooNextDeadlineFromNow(sched, now) ==
    InstantAdd(now, as_cycles(from_cycles(Period % U32Mod)))

\* The deadline foo hands to cx.schedule (line 52):
\* cx.scheduled + Duration::from_cycles(6301).  The local now is only printed.
FooNextDeadline(sched, now) ==
    InstantAdd(sched, as_cycles(from_cycles(Period % U32Mod)))

\* One run of task foo (lines 47 to 54): it reads the clock, whatever that
\* holds by the time the run starts, and schedules itself again.
FooRun ==
    /\ runs < MaxRuns
    /\ ~fooFailed
    /\ \E now \in U32 :
         LET next == FooNextDeadline(scheduled, now) IN
           /\ fooNow' = now
           /\ fooFailed' = ~next.ok
           /\ scheduled' = IF next.ok THEN next.inner ELSE scheduled
    /\ runs' = runs + 1
    /\ UNCHANGED <<first, lhs, rhs, op, out, overflowChecks>>
    /\ UNCHANGED <<hwvars, appvars, nowvars, budgetvars, histvars>>

\* The operations of the arithmetic, by name.
Apply(name, x, y) ==
    CASE name = "duration_since" -> duration_since(x, y)
      [] name = "instant_sub" -> InstantSub(x, y)
      [] name = "instant_add" -> InstantAdd(x, y)
      [] name = "instant_add_assign" -> InstantAddAssign(x, y)
      [] name = "instant_sub_duration" -> InstantSubDuration(x, y)
      [] name = "instant_sub_assign" -> InstantSubAssign(x, y)
      [] name = "duration_add" -> DurationAdd(x, y)
      [] name = "duration_add_assign" -> DurationAddAssign(x, y)
      [] name = "duration_sub" -> DurationSub(x, y)
      [] name = "duration_sub_assign" -> DurationSubAssign(x, y)
      [] name = "duration_mul" -> DurationMul(x, y)
      [] name = "duration_mul_assign" -> DurationMulAssign(x, y)
      [] name = "cycles_round_trip" -> Ok(as_cycles(from_cycles(x)))
      [] name = "try_into" -> try_into(from_cycles(x))
      [] name = "instant_cmp" -> Ok(InstantCmp(x, y))
      [] name = "instant_partial_cmp" -> InstantPartialCmp(x, y)
      [] name = "instant_lt" -> Ok(InstantLt(x, y))
      [] name = "instant_eq" -> Ok(InstantEq(x, y))
      [] name = "add_then_cmp" -> AddThenCmp(x, y)
      [] name = "ratio" -> ratio
      [] name = "ratio_convert" -> Convert(x, ratio)
      [] name = "elapsed" -> InstantElapsed(x, y)
      [] name = "add_then_sub" -> AddThenSub(x, y)
      [] name = "sub_then_add" -> SubThenAdd(x, y)

ArithStep(name) ==
    /\ op = "none"
    /\ op' = name
    /\ out' = Apply(name, lhs, rhs)
    /\ UNCHANGED <<lhs, rhs, overflowChecks, foovars>>
    /\ UNCHANGED <<hwvars, appvars, nowvars, budgetvars, histvars>>

DoDurationSince == ArithStep("duration_since")
DoInstantSub == ArithStep("instant_sub")
DoInstantAdd == ArithStep("instant_add")
DoInstantAddAssign == ArithStep("instant_add_assign")
DoInstantSubDuration == ArithStep("instant_sub_duration")
DoInstantSubAssign == ArithStep("instant_sub_assign")
DoDurationAdd == ArithStep("duration_add")
DoDurationAddAssign == ArithStep("duration_add_assign")
DoDurationSub == ArithStep("duration_sub")
DoDurationSubAssign == ArithStep("duration_sub_assign")
DoDurationMul == ArithStep("duration_mul")
DoDurationMulAssign == ArithStep("duration_mul_assign")
DoCyclesRoundTrip == ArithStep("cycles_round_trip")
DoTryInto == ArithStep("try_into")
DoInstantCmp == ArithStep("instant_cmp")
DoInstantPartialCmp == ArithStep("instant_partial_cmp")
DoInstantLt == ArithStep("instant_lt")
DoInstantEq == ArithStep("instant_eq")
DoAddThenCmp == ArithStep("add_then_cmp")
DoRatio == ArithStep("ratio")
DoRatioConvert == ArithStep("ratio_convert")
DoElapsed == ArithStep("elapsed")
DoAddThenSub == ArithStep("add_then_sub")
DoSubThenAdd == ArithStep("sub_then_add")

----------------------------------------------------------------------------
(* Specifications *)

Init ==
    /\ cnt_msb = 0
    /\ cnt_lsb = 0
    /\ cen_msb = FALSE
    /\ cen_lsb = FALSE
    /\ main = "L33"
    /\ handedOff = FALSE
    /\ fooSpawned = FALSE
    /\ resetPc = 0
    /\ resetCalls = 0
    /\ pc = [c \in Ctx |-> "idle"]
    /\ msb = [c \in Ctx |-> 0]
    /\ lsb = [c \in Ctx |-> 0]
    /\ msb_again = [c \in Ctx |-> 0]
    /\ result = [c \in Ctx |-> 0]
    /\ ovfLeft = MaxOverflows
    /\ isrLeft = MaxIsr
    /\ heldAtLsb = [c \in Ctx |-> 0]
    /\ highAdv = [c \in Ctx |-> 0]
    /\ retried = [c \in Ctx |-> FALSE]
    /\ floor = [c \in Ctx |-> 0]
    /\ maxRet = 0
    /\ justReset = FALSE
    /\ writes = << >>
    /\ lhs = 0
    /\ rhs = 0
    /\ op = "none"
    /\ out = Ok(0)
    /\ overflowChecks = TRUE
    /\ scheduled = 0
    /\ fooNow = 0
    /\ fooFailed = FALSE
    /\ first = 0
    /\ runs = 0

Next ==
    \/ Tick
    \/ SetupTimer
    \/ Initialize
    \/ SpawnFoo
    \/ ResetCall
    \/ ResetStep
    \/ FooCallsNow
    \/ IsrCallsNow
    \/ \E c \in Ctx : NowReadMsb(c)
    \/ \E c \in Ctx : NowReadLsb(c)
    \/ \E c \in Ctx : NowReadMsbAgain(c)
    \/ \E c \in Ctx : NowCheck(c)
    \/ \E c \in Ctx : NowReturn(c)

Spec == Init /\ [][Next]_vars

\* The clock used by any client: now() is also called before reset().
NextLib ==
    \/ Next
    \/ EarlyCallsNow

SpecLib == Init /\ [][NextLib]_vars

\* The same program in normal operation, with the scheduling of the core:
\* whatever context may run takes its next step.
NowStep(c) ==
    \/ NowReadMsb(c)
    \/ NowReadLsb(c)
    \/ NowReadMsbAgain(c)
    \/ NowCheck(c)
    \/ NowReturn(c)

NextNormal ==
    \/ TickNormal
    \/ SetupTimer
    \/ Initialize
    \/ SpawnFoo
    \/ ResetCall
    \/ ResetStep
    \/ FooCallsNow
    \/ IsrCallsNowNormal
    \/ \E c \in Ctx : NowStep(c)

LiveSpec ==
    /\ Init
    /\ [][NextNormal]_vars
    /\ \A c \in Ctx : WF_vars(NowStep(c))

\* The arithmetic on every pair of operands.
InitArith ==
    /\ cnt_msb = 0
    /\ cnt_lsb = 0
    /\ cen_msb = FALSE
    /\ cen_lsb = FALSE
    /\ main = "L33"
    /\ handedOff = FALSE
    /\ fooSpawned = FALSE
    /\ resetPc = 0
    /\ resetCalls = 0
    /\ pc = [c \in Ctx |-> "idle"]
    /\ msb = [c \in Ctx |-> 0]
    /\ lsb = [c \in Ctx |-> 0]
    /\ msb_again = [c \in Ctx |-> 0]
    /\ result = [c \in Ctx |-> 0]
    /\ ovfLeft = MaxOverflows
    /\ isrLeft = MaxIsr
    /\ heldAtLsb = [c \in Ctx |-> 0]
    /\ highAdv = [c \in Ctx |-> 0]
    /\ retried = [c \in Ctx |-> FALSE]
    /\ floor = [c \in Ctx |-> 0]
    /\ maxRet = 0
    /\ justReset = FALSE
    /\ writes = << >>
    /\ lhs \in U32
    /\ rhs \in U32
    /\ op = "none"
    /\ out = Ok(0)
    /\ overflowChecks \in BOOLEAN
    /\ scheduled = 0
    /\ fooNow = 0
    /\ fooFailed = FALSE
    /\ first = 0
    /\ runs = 0

NextArith ==
    \/ DoDurationSince
    \/ DoInstantSub
    \/ DoInstantAdd
    \/ DoInstantAddAssign
    \/ DoInstantSubDuration
    \/ DoInstantSubAssign
    \/ DoDurationAdd
    \/ DoDurationAddAssign
    \/ DoDurationSub
    \/ DoDurationSubAssign
    \/ DoDurationMul
    \/ DoDurationMulAssign
    \/ DoCyclesRoundTrip
    \/ DoTryInto
    \/ DoInstantCmp
    \/ DoInstantPartialCmp
    \/ DoInstantLt
    \/ DoInstantEq
    \/ DoAddThenCmp
    \/ DoRatio
    \/ DoRatioConvert
    \/ DoElapsed
    \/ DoAddThenSub
    \/ DoSubThenAdd

SpecArith == InitArith /\ [][NextArith]_vars

\* The program once init and reset() have returned, before the first tick.
AfterStartup ==
    /\ cnt_msb = 0
    /\ cnt_lsb = 0
    /\ cen_msb = TRUE
    /\ cen_lsb = TRUE
    /\ main = "returned"
    /\ handedOff = TRUE
    /\ fooSpawned = TRUE
    /\ resetPc = Len(ResetProgram) + 1
    /\ resetCalls = 1
    /\ pc = [c \in Ctx |-> "idle"]
    /\ msb = [c \in Ctx |-> 0]
    /\ lsb = [c \in Ctx |-> 0]
    /\ msb_again = [c \in Ctx |-> 0]
    /\ result = [c \in Ctx |-> 0]
    /\ ovfLeft = MaxOverflows
    /\ isrLeft = MaxIsr
    /\ heldAtLsb = [c \in Ctx |-> 0]
    /\ highAdv = [c \in Ctx |-> 0]
    /\ retried = [c \in Ctx |-> FALSE]
    /\ floor = [c \in Ctx |-> 0]
    /\ maxRet = 0
    /\ justReset = TRUE
    /\ writes = << [reg |-> "msb_cen", val |-> 0, cen_msb |-> TRUE, cen_lsb |-> TRUE],
                   [reg |-> "lsb_cen", val |-> 0, cen_msb |-> FALSE, cen_lsb |-> TRUE],
                   [reg |-> "msb_cnt", val |-> 0, cen_msb |-> FALSE, cen_lsb |-> FALSE],
                   [reg |-> "msb_cnt", val |-> 0, cen_msb |-> FALSE, cen_lsb |-> FALSE],
                   [reg |-> "msb_cen", val |-> 1, cen_msb |-> FALSE, cen_lsb |-> FALSE],
                   [reg |-> "lsb_cen", val |-> 1, cen_msb |-> TRUE, cen_lsb |-> FALSE] >>

\* Task foo and its deadlines: the runtime starts the first run of foo with
\* some deadline, and every run starts at whatever time the clock then holds.
InitFoo ==
    /\ AfterStartup
    /\ lhs = 0
    /\ rhs = 0
    /\ op = "none"
    /\ out = Ok(0)
    /\ overflowChecks \in BOOLEAN
    /\ first \in U32
    /\ scheduled = first
    /\ fooNow = 0
    /\ fooFailed = FALSE
    /\ runs = 0

NextFoo == FooRun

SpecFoo == InitFoo /\ [][NextFoo]_vars

----------------------------------------------------------------------------
(* Properties *)

Done(c) == pc[c] = "done"

\* C1: every value now() returns is the value the two counters held
\* together at one moment of the call (the moment the low counter was read),
\* whatever ticks, overflows and preemptions interleave with its reads,
\* provided the high counter advanced fewer than CntMod (2^16) times during
\* the call.
C1_TearFree ==
    \A c \in Ctx :
        (Done(c) /\ highAdv[c] < CntMod) => result[c] = heldAtLsb[c]

\* A call that saw the high counter advance, threw a sample away and returned.
C1_Witness ==
    /\ Done("task")
    /\ retried["task"]
    /\ highAdv["task"] >= 1
    /\ highAdv["task"] < CntMod

\* C2: when reset() has returned and no tick has happened since, both
\* counters hold 0.
C2_ResetClearsBoth == justReset => (cnt_msb = 0 /\ cnt_lsb = 0)

\* C3: after reset(), a call of now() returns no less than any call that
\* returned before it started, as long as the 32 bit value has not wrapped
\* in between.
C3_Monotonic ==
    \A c \in Ctx : (Done(c) /\ ResetReturned) => result[c] >= floor[c]

\* A call returned after an earlier call had returned a value above 0.
C3_Witness ==
    /\ ResetReturned
    /\ \E c \in Ctx : Done(c) /\ floor[c] > 0

IsClear(w) == w.reg \in {"msb_cnt", "lsb_cnt"} /\ w.val = 0

\* The counters are stopped and reset() has not yet restarted one.
InPause ==
    /\ Len(writes) >= 2
    /\ \A i \in 3 .. Len(writes) : IsClear(writes[i])

\* C4: reset() writes in the order: high counter off, low counter off,
\* clears, high counter on, low counter on; every clear finds both counters
\* off; between the second and the fifth write no counter counts; and once
\* reset() has returned both enable bits are set.
C4_ResetOrder ==
    /\ \A i \in 1 .. Len(writes) :
          IsClear(writes[i]) => (~writes[i].cen_msb /\ ~writes[i].cen_lsb)
    /\ (~ResetReturned /\ InPause) => (~cen_msb /\ ~cen_lsb /\ ~ENABLED Tick)
    /\ ResetReturned =>
          LET n == Len(writes) IN
          /\ n >= 5
          /\ [reg |-> writes[1].reg, val |-> writes[1].val] = [reg |-> "msb_cen", val |-> 0]
          /\ [reg |-> writes[2].reg, val |-> writes[2].val] = [reg |-> "lsb_cen", val |-> 0]
          /\ \A i \in 3 .. (n - 2) : IsClear(writes[i])
          /\ [reg |-> writes[n-1].reg, val |-> writes[n-1].val] = [reg |-> "msb_cen", val |-> 1]
          /\ [reg |-> writes[n].reg, val |-> writes[n].val] = [reg |-> "lsb_cen", val |-> 1]
          /\ cen_msb /\ cen_lsb

\* reset() returned after ticks of the running counters before it.
C4_Witness == ResetReturned /\ justReset /\ cnt_lsb # 0

\* C5: the pair is handed off during init; the runtime calls reset() once,
\* after init has returned; task foo calls now() only after reset() has
\* returned; and no call of now() is under way while reset() runs.
C5_Lifecycle ==
    /\ resetCalls <= 1
    /\ handedOff <=> main \in {"L42", "returned"}
    /\ resetPc > 0 => (main = "returned" /\ handedOff /\ resetCalls = 1)
    /\ pc["task"] # "idle" => (ResetReturned /\ resetCalls = 1 /\ fooSpawned)
    /\ ~ResetReturned => \A c \in Ctx : pc[c] = "idle"

\* Task foo is in the middle of now().
C5_Witness == pc["task"] = "L99" /\ resetCalls = 1

\* C6: for a.inner >= b.inner, a - b succeeds with a.inner - b.inner ticks.
C6_InstantSubExact ==
    (op = "instant_sub" /\ lhs >= rhs) => (out.ok /\ out.inner = lhs - rhs)

C8_NowTerminates ==
    /\ [][\A c \in Ctx :
            (pc[c] = "L107" /\ pc'[c] = "L97") => msb[c] # cnt_msb]_vars
    /\ \A c \in Ctx : InCall(c) ~> Done(c)

\* A call returned after it had repeated a pass.
C8_Witness == \E c \in Ctx : Done(c) /\ retried[c]

\* C9: no step of now() writes a counter or an enable bit, in whatever
\* lifecycle state it is taken, and a call is always at one of the
\* positions of the loop: it has no failure exit.
C9_NowReadOnly ==
    /\ [][(\E c \in Ctx : pc'[c] # pc[c]) => UNCHANGED hwvars]_vars
    /\ [](pc \in [Ctx -> {"idle", "L97", "L98", "L99", "L107", "done"}])

\* A call returned before the hand-off, and one before reset().
C9_Witness ==
    /\ Done("task")
    /\ resetPc = 0
    /\ ~handedOff

\* C10: Instant + Duration and Instant - Duration, and += and -=, never fail
\* and yield the sum, or the difference, modulo U32Mod (2^32).
C10_InstantWraps ==
    /\ op \in {"instant_add", "instant_add_assign"} =>
          (out.ok /\ out.inner = (lhs + rhs) % U32Mod)
    /\ op \in {"instant_sub_duration", "instant_sub_assign"} =>
          (out.ok /\ out.inner = (lhs - rhs) % U32Mod)

\* An addition that wrapped past U32Mod.
C10_Witness == op = "instant_add" /\ lhs + rhs >= U32Mod /\ out.ok

\* C11: Duration + Duration, and +=, yields the exact sum when that is below
\* U32Mod (2^32) and fails otherwise.
C11_DurationAddNonWrapping ==
    op \in {"duration_add", "duration_add_assign"} =>
        IF lhs + rhs < U32Mod THEN out = Ok(lhs + rhs) ELSE ~out.ok

\* C12: Duration - Duration, and -=, yields the exact difference when the
\* left operand is not the smaller one and fails otherwise.
C12_DurationSubNonWrapping ==
    op \in {"duration_sub", "duration_sub_assign"} =>
        IF lhs >= rhs THEN out = Ok(lhs - rhs) ELSE ~out.ok

\* Addition that fails when the sum is out of range.
NonWrappingAdd(acc, d) ==
    IF acc.ok /\ acc.inner + d < U32Mod THEN Ok(acc.inner + d) ELSE Panic

\* d added n times to the zero Duration.
RECURSIVE RepeatedAdd(_, _)
RepeatedAdd(d, n) ==
    IF n = 0 THEN Ok(0) ELSE NonWrappingAdd(RepeatedAdd(d, n - 1), d)

\* C13: Duration * n, and *=, has the outcome of adding the Duration n times
\* to the zero Duration with non-wrapping addition.
C13_DurationMulRepeatedAdd ==
    op \in {"duration_mul", "duration_mul_assign"} =>
        out = RepeatedAdd(lhs, rhs)

C15_CyclesRoundTrip ==
    /\ op = "cycles_round_trip" => out = Ok(lhs)
    /\ op = "try_into" => (out.ok /\ out.inner = lhs)

\* A count that needs more than one counter register was converted.
C15_Witness == op = "try_into" /\ lhs >= CntMod /\ out = Ok(lhs)

\* C16: cmp, <, == and partial_cmp of Instants are those of the raw tick
\* counts, and an Instant that wrapped past U32Mod (2^32) when a Duration was
\* added compares as earlier than the Instant it was derived from.
C16_OrderIsRaw ==
    /\ op = "instant_cmp" =>
          /\ out.ok
          /\ out.inner = "Less" <=> lhs < rhs
          /\ out.inner = "Equal" <=> lhs = rhs
          /\ out.inner = "Greater" <=> lhs > rhs
    /\ op = "instant_lt" => out = Ok(lhs < rhs)
    /\ op = "instant_eq" => out = Ok(lhs = rhs)
    /\ op = "instant_partial_cmp" =>
          /\ out.some
          /\ out.value = "Less" <=> lhs < rhs
          /\ out.value = "Equal" <=> lhs = rhs
          /\ out.value = "Greater" <=> lhs > rhs
    /\ (op = "add_then_cmp" /\ lhs + rhs >= U32Mod) => out = Ok("Less")

\* The later of two instants is more than half the range ahead and still
\* compares as greater.
C16_Witness ==
    /\ op = "instant_cmp"
    /\ 2 * (lhs - rhs) > U32Mod
    /\ out = Ok("Greater")

\* C17: ratio() is numerator 1 over denominator 1, so the denominator is not
\* 0 and a tick count converted by it is unchanged.
C17_RatioIdentity ==
    /\ op = "ratio" =>
          (out.numerator = 1 /\ out.denominator = 1 /\ out.denominator # 0)
    /\ op = "ratio_convert" => out = Ok(lhs)

\* A nonzero tick count was converted.
C17_Witness == op = "ratio_convert" /\ lhs = U32Mod - 1 /\ out = Ok(lhs)

C20_AddSubInverse ==
    op \in {"add_then_sub", "sub_then_add"} => out = Ok(lhs)

\* The difference in between wrapped below 0.
C20_Witness == op = "sub_then_add" /\ lhs < rhs /\ out = Ok(lhs)

\* C18: a pass of the loop of now() returns exactly when its first read of
\* the high counter equals its last one, the one made for the comparison;
\* the value returned is that high count and the one low count the pass
\* read; a pass whose first and last high reads differ drops its low count
\* and starts again.  The low count is read once per pass.
C18_ThreeReadLoop ==
    /\ [][\A c \in Ctx :
            (pc[c] = "L107" /\ pc'[c] # "L107") =>
                /\ pc'[c] \in {"done", "L97"}
                /\ pc'[c] = "done" <=> msb[c] = cnt_msb
                /\ pc'[c] = "done" =>
                      result'[c] = Composite(cnt_msb, lsb[c])
                /\ pc'[c] = "L97" =>
                      (lsb'[c] = 0 /\ result'[c] = result[c])]_vars
    /\ [][\A c \in Ctx :
            lsb'[c] # lsb[c] => pc[c] \in {"L98", "L107"}]_vars
    /\ [](\A c \in Ctx :
            pc[c] \in {"L99", "L107"} => lsb[c] = heldAtLsb[c] % CntMod)

\* In a repeated pass the high counter was unchanged when line 99 read it and
\* has advanced by the time of the comparison.
C18_Witness ==
    \E c \in Ctx :
        /\ pc[c] = "L107"
        /\ retried[c]
        /\ msb[c] = msb_again[c]
        /\ msb[c] # cnt_msb

====
